---- MODULE Spec2Model ----
(***************************************************************************)
(* Model of the encoders and status decoders of python-miio:               *)
(*   miio/airconditioningcompanion.py  command template engine and the     *)
(*                                     positional status decoder           *)
(*   miio/powerstrip.py                property-list status decoder and    *)
(*                                     set_power_price                     *)
(*   mirobo/airpurifier.py             property-list status decoder        *)
(*                                                                         *)
(* A Python str is a sequence of one-character strings, so that slicing,   *)
(* str.replace, int() and format() are computed character by character.    *)
(* A Python value that may be a str, an int or None is a tagged record.    *)
(***************************************************************************)
EXTENDS Integers, Sequences, FiniteSets, TLC

VARIABLES
    templates,  \* the module-level dict DEVICE_COMMAND_TEMPLATES
    call,       \* the last operation called on a device, with its arguments
    sent,       \* the RPC calls (Device.send) made by that operation, in order
    result,     \* what that operation returned or raised
    threads     \* the send_configuration calls of callers that run in
                \* parallel: each caller's place in the method and its locals

vars == <<templates, call, sent, result, threads>>

(***************************************************************************)
(* Bounds of the inputs.                                                   *)
(***************************************************************************)
TempBelow == 1      \* target temperatures start at 0 - TempBelow
TempMax == 24       \* and end at TempMax
PriceSlack == 2     \* prices run from 0 - PriceSlack to 999 + PriceSlack
ExtraValues == 1    \* a device may return this many values more than requested
TailLen == 1        \* characters of a state string after the LED offset
NumCallers == 2     \* callers of send_configuration that run in parallel

(***************************************************************************)
(* Python strings.                                                         *)
(***************************************************************************)
Min(a, b) == IF a < b THEN a ELSE b

\* s[a:b] for 0 <= a <= b: indices past the end are clipped, never an error
Slice(s, a, b) == SubSeq(s, a + 1, Min(b, Len(s)))

\* s[-1:]
LastChar(s) == IF Len(s) = 0 THEN <<>> ELSE <<s[Len(s)]>>

\* s has sub (not empty) at 1-based position i
MatchAt(s, i, sub) ==
    /\ i + Len(sub) - 1 <= Len(s)
    /\ s[i] = sub[1]
    /\ SubSeq(s, i, i + Len(sub) - 1) = sub

\* str.find from 1-based position i on: the first position >= i where s has
\* sub, or 0
RECURSIVE find_from(_, _, _)
find_from(s, i, sub) ==
    IF i + Len(sub) - 1 > Len(s) THEN 0
    ELSE IF MatchAt(s, i, sub) THEN i
    ELSE find_from(s, i + 1, sub)

\* s.replace(old, new, 1): a replace that stops after the first occurrence
replace_first(s, old, new) ==
    LET j == find_from(s, 1, old)
    IN  IF j = 0 THEN s
        ELSE SubSeq(s, 1, j - 1) \o new \o SubSeq(s, j + Len(old), Len(s))

\* s.replace(old, new) for old not empty: every non-overlapping occurrence,
\* left to right; the text put in is not searched again
RECURSIVE replace(_, _, _)
replace(s, old, new) ==
    LET j == find_from(s, 1, old)
    IN  IF j = 0 THEN s
        ELSE SubSeq(s, 1, j - 1) \o new
             \o replace(SubSeq(s, j + Len(old), Len(s)), old, new)

\* s contains sub
Contains(s, sub) == find_from(s, 1, sub) # 0

UpperHexDigits ==
    <<"0","1","2","3","4","5","6","7","8","9","A","B","C","D","E","F">>
LowerHexDigits ==
    <<"0","1","2","3","4","5","6","7","8","9","a","b","c","d","e","f">>

\* the digits of n >= 0 to a base, most significant first
RECURSIVE NatDigits(_, _, _)
NatDigits(n, base, digits) ==
    IF n < base THEN <<digits[n + 1]>>
    ELSE NatDigits(n \div base, base, digits) \o <<digits[(n % base) + 1]>>

IntDigits(n, base, digits) ==
    IF n < 0 THEN <<"-">> \o NatDigits(0 - n, base, digits)
    ELSE NatDigits(n, base, digits)

\* format(n, 'x'): lower case
format_x(n) == IntDigits(n, 16, LowerHexDigits)

\* format(n, 'X')
format_X(n) == IntDigits(n, 16, UpperHexDigits)

\* str(n) of an int
str(n) == IntDigits(n, 10, UpperHexDigits)

\* the remainder of C: it takes the sign of a
CMod(a, b) == IF a < 0 THEN 0 - ((0 - a) % b) ELSE a % b

\* a % b of Python for b > 0: always in 0..b-1
PyMod(a, b) == a % b

(***************************************************************************)
(* The enumerations of airconditioningcompanion.py: member name -> value.  *)
(***************************************************************************)
OperationMode ==
    [Heat |-> 0, Cool |-> 1, Auto |-> 2, Dehumidify |-> 3, Ventilate |-> 4]
FanSpeed == [Low |-> 0, Medium |-> 1, High |-> 2, Auto |-> 3]
SwingMode == [On |-> 0, Off |-> 1]
Power == [On |-> 1, Off |-> 0]
Led == [On |-> <<"0">>, Off |-> <<"a">>]

POWER_OFF == "off"

(***************************************************************************)
(* DEVICE_COMMAND_TEMPLATES.                                               *)
(***************************************************************************)
FALLBACK == <<"f","a","l","l","b","a","c","k">>
GREE_2 == <<"0","1","0","0","0","1","0","7","2","7">>
GREE_8 == <<"0","1","0","0","0","0","4","7","9","5">>
HAIER_1 == <<"0","1","8","0","3","3","3","3","3","1">>
AUX_1 == <<"0","1","8","0","6","6","6","6","6","1">>
CHIGO_1 == <<"0","1","8","0","7","7","7","7","7","1">>

DEVICE_COMMAND_TEMPLATES ==
    (FALLBACK :>
        ("deviceType" :> <<"g","e","n","e","r","i","c">> @@
         "base" :> <<"[","p","o","]","[","m","o","]","[","w","i","]",
                     "[","s","w","]","[","t","t","]","[","l","i","]">>)) @@
    (GREE_2 :>
        ("deviceType" :> <<"g","r","e","e","_","2">> @@
         "base" :> <<"[","p","o","]","[","m","o","]","[","w","i","]",
                     "[","s","w","]","[","t","t","]",
                     "1","1","0","0","1","9","0","[","t","t","1","]",
                     "2","0","5","0","0","2","1","0","2","0","0","0",
                     "[","t","t","7","]","0","1","9","0","[","t","t","1","]",
                     "2","0","7","0","0","2","0","0","0","0","0","0",
                     "[","t","t","4","]">> @@
         "off" :> <<"0","1","0","1","1","1","0","1","0","0","4","0","0","0",
                    "2","0","5","0","0","2","1","1","2","0","0","0","D","0",
                    "4","0","0","0","2","0","7","0","0","2","0","0","0","0",
                    "0","0","A","0">>)) @@
    (GREE_8 :>
        ("deviceType" :> <<"g","r","e","e","_","8">> @@
         "base" :> <<"[","p","o","]","[","m","o","]","[","w","i","]",
                     "[","s","w","]","[","t","t","]","[","l","i","]",
                     "1","0","0","0","9","0","9","0","0","0","0","5","0",
                     "0">>)) @@
    (HAIER_1 :>
        ("deviceType" :> <<"h","a","i","e","r","_","1">> @@
         "base" :> <<"[","p","o","]","[","m","o","]","[","w","i","]",
                     "[","s","w","]","[","t","t","]","1">>)) @@
    (AUX_1 :>
        ("deviceType" :> <<"a","u","x","_","1">> @@
         "base" :> <<"[","p","o","]","[","m","o","]","[","w","i","]",
                     "[","s","w","]","[","t","t","]","1">>)) @@
    (CHIGO_1 :>
        ("deviceType" :> <<"c","h","i","g","o","_","1">> @@
         "base" :> <<"[","p","o","]","[","m","o","]","[","w","i","]",
                     "[","s","w","]","[","t","t","]","1">>))

(***************************************************************************)
(* The markers of a base template.                                         *)
(***************************************************************************)
M_po == <<"[","p","o","]">>
M_mo == <<"[","m","o","]">>
M_wi == <<"[","w","i","]">>
M_sw == <<"[","s","w","]">>
M_tt == <<"[","t","t","]">>
M_li == <<"[","l","i","]">>
M_tt1 == <<"[","t","t","1","]">>
M_tt4 == <<"[","t","t","4","]">>
M_tt7 == <<"[","t","t","7","]">>

(***************************************************************************)
(* AirConditioningCompanion.send_configuration, its pure part.             *)
(***************************************************************************)
\* prefix = str(model[0:2] + model[8:16])
model_prefix(model) == Slice(model, 0, 2) \o Slice(model, 8, 16)

\* suffix = model[-1:]
model_suffix(model) == LastChar(model)

\* a shortcut test that asks for the wrong power
static_off_available_when_on(T, prefix, power) ==
    /\ power = "On"
    /\ prefix \in DOMAIN T
    /\ POWER_OFF \in DOMAIN T[prefix]

\* "Static turn off command available?"
static_off_available(T, prefix, power) ==
    /\ power = "Off"
    /\ prefix \in DOMAIN T
    /\ POWER_OFF \in DOMAIN T[prefix]

\* a lookup that always takes the fallback base
base_configuration_fallback_only(T, prefix) ==
    prefix \o T[FALLBACK]["base"]

\* configuration = prefix + base of the prefix's template, or of 'fallback'
base_configuration(T, prefix) ==
    IF prefix \in DOMAIN T
    THEN prefix \o T[prefix]["base"]
    ELSE prefix \o T[FALLBACK]["base"]

\* a lookup that stores the fallback template under a prefix it misses,
\* as DEVICE_COMMAND_TEMPLATES.setdefault(prefix, ...) would
registry_after_lookup_setdefault(T, prefix) ==
    IF prefix \in DOMAIN T THEN T ELSE T @@ (prefix :> T[FALLBACK])

\* DEVICE_COMMAND_TEMPLATES after send_configuration has looked the prefix
\* up: the method tests membership and reads entries, it assigns to nothing
\* of the dict
registry_after_lookup(T, prefix) == T

\* format((K + target_temperature - 17) % 16, 'X')
temperature_offset(K, target_temperature) ==
    format_X(PyMod(K + target_temperature - 17, 16))

\* the nine replace calls of send_configuration, in the order of the code
substitute(configuration, power, operation_mode, target_temperature, fan_speed, swing_mode, led) ==
    LET c1 == replace(configuration, M_po, str(Power[power]))
        c2 == replace(c1, M_mo, str(OperationMode[operation_mode]))
        c3 == replace(c2, M_wi, str(FanSpeed[fan_speed]))
        c4 == replace(c3, M_sw, str(SwingMode[swing_mode]))
        c5 == replace(c4, M_tt, format_X(target_temperature))
        c6 == replace(c5, M_li, Led[led])
        c7 == replace(c6, M_tt1, temperature_offset(1, target_temperature))
        c8 == replace(c7, M_tt4, temperature_offset(4, target_temperature))
        c9 == replace(c8, M_tt7, temperature_offset(7, target_temperature))
    IN  c9

\* the string send_configuration hands to send_command
configuration_command(T, model, power, operation_mode, target_temperature, fan_speed, swing_mode, led) ==
    LET prefix == model_prefix(model)
        suffix == model_suffix(model)
    IN  IF static_off_available(T, prefix, power)
        THEN prefix \o T[prefix][POWER_OFF]
        ELSE substitute(base_configuration(T, prefix), power, operation_mode,
                        target_temperature, fan_speed, swing_mode, led)
             \o suffix

\* Device.send(method, params) as seen by this layer: the call is recorded
Rpc(method, params) == [method |-> method, params |-> params]

\* send_command(command): self.send("send_cmd", [str(command)])
send_command(command) == Rpc("send_cmd", <<command>>)

(***************************************************************************)
(* Python values other than the strings above: tagged records.  A str      *)
(* that is only compared whole (a property value, a dict key) is a TLA+    *)
(* string.                                                                 *)
(***************************************************************************)
None == [t |-> "None"]
StrV(x) == [t |-> "str", v |-> x]
IntV(n) == [t |-> "int", v |-> n]
BoolV(b) == [t |-> "bool", v |-> b]
\* the float n / 10.0
FloatTenthsV(n) == [t |-> "float", tenths |-> n]
\* the member of an enum class
EnumV(cls, member) == [t |-> "enum", cls |-> cls, member |-> member]

\* what an accessor or a method does: it returns a value or raises
Ok(v) == [exc |-> "none", val |-> v]
Raise(e) == [exc |-> e]

\* the value of a hexadecimal digit character, or 99 for any other
\* character (upper and lower case letters alike)
DigitValue(c) ==
    IF \E i \in 1..16 : UpperHexDigits[i] = c
    THEN (CHOOSE i \in 1..16 : UpperHexDigits[i] = c) - 1
    ELSE IF \E i \in 1..16 : LowerHexDigits[i] = c
    THEN (CHOOSE i \in 1..16 : LowerHexDigits[i] = c) - 1
    ELSE 99

RECURSIVE DigitsValue(_, _)
DigitsValue(s, base) ==
    IF Len(s) = 0 THEN 0
    ELSE DigitsValue(SubSeq(s, 1, Len(s) - 1), base) * base
         + DigitValue(s[Len(s)])

\* int(s, base) of a str s of letters and digits: ValueError when s is
\* empty or holds a character that is no digit of the base
int(s, base) ==
    IF Len(s) = 0 \/ \E i \in 1..Len(s) : DigitValue(s[i]) >= base
    THEN Raise("ValueError")
    ELSE Ok(DigitsValue(s, base))

\* E(value) of an enum class E: the member of that value, or ValueError
enum_by_value(cls, E, value) ==
    IF \E m \in DOMAIN E : E[m] = value
    THEN Ok(EnumV(cls, CHOOSE m \in DOMAIN E : E[m] = value))
    ELSE Raise("ValueError")

(***************************************************************************)
(* AirConditioningCompanionStatus: data is the response of                 *)
(* get_model_and_state; data[2] here is data[1] of the code (sequences     *)
(* start at 1), a str or None.                                             *)
(***************************************************************************)
\* self.data[1][a:b]: TypeError when data[1] cannot be sliced
state_slice(data, a, b) ==
    IF data[2] = None THEN Raise("TypeError")
    ELSE Ok(Slice(data[2].v, a, b))

\* int(self.data[1][a:b], base)
state_int(data, a, b, base) ==
    LET sl == state_slice(data, a, b)
    IN  IF sl.exc # "none" THEN sl ELSE int(sl.val, base)

\* power: no try block around the conversion
AirConditioningCompanionStatus_power(data) ==
    LET n == state_int(data, 2, 3, 10)
    IN  IF n.exc # "none" THEN n
        ELSE Ok(StrV(IF n.val = Power.On THEN "on" ELSE "off"))

\* led: an int is compared with Led.On.value, the str '0': never equal
AirConditioningCompanionStatus_led(data) ==
    LET n == state_int(data, 8, 9, 10)
    IN  IF n.exc # "none" THEN n
        ELSE Ok(StrV(IF IntV(n.val) = StrV(Led.On) THEN "on" ELSE "off"))

\* is_on: self.power == 'on'
AirConditioningCompanionStatus_is_on(data) ==
    LET pw == AirConditioningCompanionStatus_power(data)
    IN  IF pw.exc # "none" THEN pw ELSE Ok(BoolV(pw.val = StrV("on")))

\* try: ... except TypeError: return None
except_TypeError(r) == IF r.exc = "TypeError" THEN Ok(None) ELSE r

AirConditioningCompanionStatus_target_temperature(data) ==
    LET n == state_int(data, 6, 8, 16)
    IN  except_TypeError(IF n.exc # "none" THEN n ELSE Ok(IntV(n.val)))

AirConditioningCompanionStatus_swing_mode(data) ==
    LET n == state_int(data, 5, 6, 10)
    IN  except_TypeError(IF n.exc # "none" THEN n
                         ELSE enum_by_value("SwingMode", SwingMode, n.val))

AirConditioningCompanionStatus_fan_speed(data) ==
    LET n == state_int(data, 4, 5, 10)
    IN  except_TypeError(IF n.exc # "none" THEN n
                         ELSE enum_by_value("FanSpeed", FanSpeed, n.val))

AirConditioningCompanionStatus_mode(data) ==
    LET n == state_int(data, 3, 4, 10)
    IN  except_TypeError(IF n.exc # "none" THEN n
                         ELSE enum_by_value("OperationMode", OperationMode,
                                            n.val))

(***************************************************************************)
(* The property-list decoders.  A dict is a function from its keys.        *)
(***************************************************************************)
\* a zip that pairs nothing unless both lists have the same length
zip_strict(names, values) ==
    IF Len(names) # Len(values) THEN <<>>
    ELSE [i \in 1..Len(names) |-> <<names[i], values[i]>>]

\* zip(names, values): pairs up to the shorter length
zip(names, values) ==
    [i \in 1..Min(Len(names), Len(values)) |-> <<names[i], values[i]>>]

\* dict(pairs): a later pair of the same key wins
dict(pairs) ==
    [k \in {pairs[i][1] : i \in DOMAIN pairs} |->
        LET last == CHOOSE i \in DOMAIN pairs :
                        /\ pairs[i][1] = k
                        /\ \A j \in DOMAIN pairs : pairs[j][1] = k => j <= i
        IN  pairs[last][2]]

\* d[k] of a dict
dict_getitem(d, k) == IF k \in DOMAIN d THEN Ok(d[k]) ELSE Raise("KeyError")

\* d[k] of a defaultdict(lambda: None, ...): a missing key reads as None
\* (and is then stored with that value, which no accessor can tell apart)
defaultdict_getitem(d, k) == IF k \in DOMAIN d THEN Ok(d[k]) ELSE Ok(None)

PowerMode == [Eco |-> "green", Normal |-> "normal"]

\* PowerMode(value)
PowerMode_by_value(value) ==
    IF value.t = "str" /\ \E m \in DOMAIN PowerMode : PowerMode[m] = value.v
    THEN Ok(EnumV("PowerMode",
                  CHOOSE m \in DOMAIN PowerMode : PowerMode[m] = value.v))
    ELSE Raise("ValueError")

\* the properties PowerStrip.status asks for
PowerStrip_properties ==
    <<"power", "temperature", "current", "mode", "power_consume_rate",
      "wifi_led", "power_price", "voltage", "power_factor", "elec_leakage">>

\* accessor of PowerStripStatus -> the property it reads
PowerStripStatus_property ==
    [power |-> "power", is_on |-> "power", temperature |-> "temperature",
     current |-> "current", load_power |-> "power_consume_rate",
     mode |-> "mode", wifi_led |-> "wifi_led", power_price |-> "power_price",
     leakage_current |-> "elec_leakage", voltage |-> "voltage",
     power_factor |-> "power_factor"]

\* the accessors of PowerStripStatus on its data, a defaultdict
PowerStripStatus_get(data, accessor) ==
    LET r == defaultdict_getitem(data, PowerStripStatus_property[accessor])
    IN  IF r.exc # "none" THEN r
        ELSE CASE accessor \in {"is_on", "wifi_led"} ->
                    \* == "on"
                    Ok(BoolV(r.val = StrV("on")))
               [] accessor = "mode" ->
                    IF r.val # None THEN PowerMode_by_value(r.val)
                    ELSE Ok(None)
               [] OTHER -> Ok(r.val)

\* the properties AirPurifier.status asks for
AirPurifier_properties ==
    <<"power", "aqi", "humidity", "temp_dec", "mode", "led", "led_b",
      "buzzer", "child_lock", "limit_hum", "trans_level", "bright",
      "favorite_level", "filter1_life", "act_det", "f1_hour_used",
      "use_time", "motor1_speed">>

\* accessor of AirPurifierStatus -> the property it reads
AirPurifierStatus_property ==
    [power |-> "power", is_on |-> "power", aqi |-> "aqi",
     humidity |-> "humidity", temperature |-> "temp_dec", mode |-> "mode",
     led |-> "led", led_b |-> "led_b", buzzer |-> "buzzer",
     child_lock |-> "child_lock", limit_hum |-> "limit_hum",
     trans_level |-> "trans_level", bright |-> "bright",
     favorite_level |-> "favorite_level",
     filter_life_remaining |-> "filter1_life", act_det |-> "act_det",
     filter_hours_used |-> "f1_hour_used", use_time |-> "use_time",
     motor_speed |-> "motor1_speed"]

brightness_levels == (0 :> "bright") @@ (1 :> "dim") @@ (2 :> "off")

\* the accessors of AirPurifierStatus on its data, a plain dict
AirPurifierStatus_get(data, accessor) ==
    LET r == dict_getitem(data, AirPurifierStatus_property[accessor])
    IN  IF r.exc # "none" THEN r
        ELSE CASE accessor \in {"is_on", "led", "buzzer", "act_det"} ->
                    \* == "on"
                    Ok(BoolV(r.val = StrV("on")))
               [] accessor = "temperature" ->
                    \* self.data["temp_dec"] / 10.0
                    IF r.val.t = "int" THEN Ok(FloatTenthsV(r.val.v))
                    ELSE Raise("TypeError")
               [] accessor = "led_b" ->
                    \* brightness_levels[self.data["led_b"]]
                    IF r.val.t = "int" /\ r.val.v \in DOMAIN brightness_levels
                    THEN Ok(StrV(brightness_levels[r.val.v]))
                    ELSE Raise("KeyError")
               [] OTHER -> Ok(r.val)

(***************************************************************************)
(* PowerStrip.set_power_price.                                             *)
(***************************************************************************)
PRICE_MIN == 0
PRICE_MAX == 999

\* a range test that is off by one at the lower end
price_out_of_range_off_by_one(price) == price <= PRICE_MIN \/ price > PRICE_MAX

\* if price < 0 or price > 999
price_out_of_range(price) == price < PRICE_MIN \/ price > PRICE_MAX

\* "Invalid power price: %s" % price
invalid_power_price(price) ==
    <<"I","n","v","a","l","i","d"," ","p","o","w","e","r"," ",
      "p","r","i","c","e",":"," ">> \o str(price)

(***************************************************************************)
(* The inputs of send_configuration.                                       *)
(***************************************************************************)
UNREGISTERED == <<"0","1","8","0","2","2","2","2","2","1">>

\* an 18-character model number whose prefix is p and whose last two
\* characters are tail, like '010500978022222102' of the source's comments
ModelOf(p, tail) ==
    SubSeq(p, 1, 2) \o <<"0","5","0","0","9","7">> \o SubSeq(p, 3, 10) \o tail

\* the registered model numbers, an unregistered one, two model strings
\* shorter than the slices taken of them, and one whose prefix is the
\* registry key 'fallback'
Models ==
    {ModelOf(p, <<"0","2">>) :
        p \in {GREE_2, GREE_8, HAIER_1, AUX_1, CHIGO_1, UNREGISTERED}}
    \cup {<<>>, <<"0","1">>,
          <<"f","a","0","5","0","0","9","7","l","l","b","a","c","k">>}

Temperatures == (0 - TempBelow)..TempMax

(***************************************************************************)
(* The inputs of the other operations.                                     *)
(***************************************************************************)
Prices == (PRICE_MIN - PriceSlack)..(PRICE_MAX + PriceSlack)

Take(s, n) == SubSeq(s, 1, Min(n, Len(s)))

\* the state strings a device may return as element [1]: every prefix of
\* '01' + power + mode + fan speed + swing + two temperature characters +
\* LED + TailLen more characters, with characters that convert and
\* characters that do not
StateStrings ==
    {Take(<<"0", "1", po, mo, wi, sw, t1, t2, li>> \o [i \in 1..TailLen |-> "0"],
          n) :
        po \in {"0", "1", "x"}, mo \in {"0", "4", "5", "x"}, wi \in {"3", "4"},
        sw \in {"0", "1", "2"}, t1 \in {"1", "g"}, t2 \in {"8", "A", "a"},
        li \in {"0", "a", "1"}, n \in 0..(9 + TailLen)}

\* the responses of get_model_and_state: [model, state, load power]
StateResponses ==
    {<<StrV(ModelOf(GREE_8, <<"0","1">>)), st, StrV(<<"6">>)>> :
        st \in {StrV(x) : x \in StateStrings} \cup {None}}

\* the responses of a power strip to get_prop: the first n values of a
\* full answer followed by ExtraValues more
PowerStripResponses ==
    {Take(<<pw, IntV(48), IntV(5), md, IntV(4), wl, IntV(49), IntV(230),
            IntV(1), IntV(0)>> \o [i \in 1..ExtraValues |-> IntV(7)], n) :
        pw \in {StrV("on"), StrV("off"), None},
        md \in {StrV("green"), StrV("normal"), None},
        wl \in {StrV("on"), StrV("off")},
        n \in 0..(Len(PowerStrip_properties) + ExtraValues)}

\* the responses of an air purifier to get_prop
AirPurifierResponses ==
    {Take(<<pw, IntV(10), IntV(40), td, StrV("auto"), ld, lb, StrV("off"),
            StrV("off"), IntV(60), IntV(0), IntV(80), IntV(10), IntV(90),
            StrV("off"), IntV(100), IntV(2000), IntV(300)>>
          \o [i \in 1..ExtraValues |-> IntV(7)], n) :
        pw \in {StrV("on"), StrV("off")}, td \in {IntV(215), None},
        ld \in {StrV("on"), StrV("off")}, lb \in {IntV(0), IntV(2), IntV(3)},
        n \in 0..(Len(AirPurifier_properties) + ExtraValues)}


\* the arguments the parallel callers choose from: a model with a static
\* off command, a registered model without one and an unregistered one,
\* each with power On and Off
ParallelModels ==
    {ModelOf(p, <<"0","2">>) : p \in {GREE_2, GREE_8, UNREGISTERED}}

ParallelArguments ==
    {[model |-> model, power |-> power, operation_mode |-> "Cool",
      target_temperature |-> TempMax, fan_speed |-> "Auto",
      swing_mode |-> "Off", led |-> "On"] :
        model \in ParallelModels, power \in DOMAIN Power}

Callers == 1..NumCallers

\* a caller that is in no call
IdleThread == [pc |-> "idle"]

(***************************************************************************)
(* Actions.                                                                *)
(***************************************************************************)
Init ==
    /\ templates = DEVICE_COMMAND_TEMPLATES
    /\ call = [op |-> "none"]
    /\ sent = <<>>
    /\ result = [exc |-> "none"]
    /\ threads = [c \in Callers |-> IdleThread]

\* AirConditioningCompanion.status: the response is wrapped as it is
AirConditioningCompanion_status ==
    /\ call.op = "none"
    /\ \E response \in StateResponses :
        /\ call' = [op |-> "AirConditioningCompanion.status",
                    response |-> response]
        /\ sent' = <<Rpc("get_model_and_state", <<>>)>>
        /\ result' = [exc |-> "none", data |-> response]
        /\ UNCHANGED <<templates, threads>>

\* PowerStrip.status
PowerStrip_status ==
    /\ call.op = "none"
    /\ \E values \in PowerStripResponses :
        /\ call' = [op |-> "PowerStrip.status", values |-> values]
        /\ sent' = <<Rpc("get_prop", PowerStrip_properties)>>
        /\ result' = [exc |-> "none",
                      data |-> dict(zip(PowerStrip_properties, values))]
        /\ UNCHANGED <<templates, threads>>

\* AirPurifier.status
AirPurifier_status ==
    /\ call.op = "none"
    /\ \E values \in AirPurifierResponses :
        /\ call' = [op |-> "AirPurifier.status", values |-> values]
        /\ sent' = <<Rpc("get_prop", AirPurifier_properties)>>
        /\ result' = [exc |-> "none",
                      data |-> dict(zip(AirPurifier_properties, values))]
        /\ UNCHANGED <<templates, threads>>

\* PowerStrip.set_power_price
set_power_price ==
    /\ call.op = "none"
    /\ \E price \in Prices :
        /\ call' = [op |-> "set_power_price", price |-> price]
        /\ IF price_out_of_range(price)
           THEN /\ sent' = <<>>
                /\ result' = [exc |-> "PowerStripException",
                              msg |-> invalid_power_price(price)]
           ELSE /\ sent' = <<Rpc("set_power_price", <<price>>)>>
                /\ result' = [exc |-> "none"]
        /\ UNCHANGED <<templates, threads>>

send_configuration ==
    /\ call.op = "none"
    /\ \E model \in Models, power \in DOMAIN Power,
       operation_mode \in DOMAIN OperationMode,
       target_temperature \in Temperatures,
       fan_speed \in DOMAIN FanSpeed, swing_mode \in DOMAIN SwingMode,
       led \in DOMAIN Led :
        /\ call' = [op |-> "send_configuration", model |-> model,
                    power |-> power, operation_mode |-> operation_mode,
                    target_temperature |-> target_temperature,
                    fan_speed |-> fan_speed, swing_mode |-> swing_mode,
                    led |-> led]
        /\ sent' = <<send_command(
                       configuration_command(templates, model, power,
                           operation_mode, target_temperature, fan_speed,
                           swing_mode, led))>>
        /\ result' = [exc |-> "none"]
        /\ templates' = registry_after_lookup(templates, model_prefix(model))
        /\ UNCHANGED threads

\* the caller has read the result: nothing of the call is kept but the
\* module-level registry
Return ==
    /\ call.op # "none"
    /\ call' = [op |-> "none"]
    /\ sent' = <<>>
    /\ result' = [exc |-> "none"]
    /\ UNCHANGED <<templates, threads>>

Next ==
    \/ AirConditioningCompanion_status
    \/ PowerStrip_status
    \/ AirPurifier_status
    \/ set_power_price
    \/ send_configuration
    \/ Return

Spec == Init /\ [][Next]_vars

(***************************************************************************)
(* send_configuration called by callers that run in parallel.  A call is   *)
(* a sequence of steps, one for each access to DEVICE_COMMAND_TEMPLATES,   *)
(* the only object the callers share; the locals prefix, suffix and        *)
(* configuration belong to the call.                                       *)
(***************************************************************************)
\* the call is entered: prefix and suffix are computed from the model
thread_call(c) ==
    /\ threads[c].pc = "idle"
    /\ \E a \in ParallelArguments :
        threads' = [threads EXCEPT ![c] =
                       [pc |-> "static_off_test", args |-> a,
                        prefix |-> model_prefix(a.model),
                        suffix |-> model_suffix(a.model)]]
    /\ UNCHANGED <<templates, call, sent, result>>

\* if (power is Power.Off) and (prefix in DEVICE_COMMAND_TEMPLATES) and ...
thread_static_off_test(c) ==
    LET th == threads[c]
    IN  /\ th.pc = "static_off_test"
        /\ threads' = [threads EXCEPT ![c].pc =
                          IF static_off_available(templates, th.prefix,
                                                  th.args.power)
                          THEN "static_off" ELSE "lookup"]
        /\ templates' = registry_after_lookup(templates, th.prefix)
        /\ UNCHANGED <<call, sent, result>>

\* return self.send_command(prefix + DEVICE_COMMAND_TEMPLATES[prefix][POWER_OFF])
thread_static_off(c) ==
    LET th == threads[c]
    IN  /\ th.pc = "static_off"
        /\ threads' = [threads EXCEPT ![c] =
                          [pc |-> "done", args |-> th.args,
                           sent |-> <<send_command(
                               th.prefix \o templates[th.prefix][POWER_OFF])>>]]
        /\ templates' = registry_after_lookup(templates, th.prefix)
        /\ UNCHANGED <<call, sent, result>>

\* configuration = prefix + the base of the prefix's or the fallback template
thread_lookup(c) ==
    LET th == threads[c]
    IN  /\ th.pc = "lookup"
        /\ threads' = [threads EXCEPT ![c] =
                          [pc |-> "substitute", args |-> th.args,
                           suffix |-> th.suffix,
                           configuration |->
                               base_configuration(templates, th.prefix)]]
        /\ templates' = registry_after_lookup(templates, th.prefix)
        /\ UNCHANGED <<call, sent, result>>

\* the replace calls on the local configuration, + suffix, and send_command
thread_substitute(c) ==
    LET th == threads[c]
        a == th.args
    IN  /\ th.pc = "substitute"
        /\ threads' = [threads EXCEPT ![c] =
                          [pc |-> "done", args |-> a,
                           sent |-> <<send_command(
                               substitute(th.configuration, a.power,
                                          a.operation_mode,
                                          a.target_temperature, a.fan_speed,
                                          a.swing_mode, a.led)
                               \o th.suffix)>>]]
        /\ UNCHANGED <<templates, call, sent, result>>

\* the call has returned and its caller is free for the next one
thread_return(c) ==
    /\ threads[c].pc = "done"
    /\ threads' = [threads EXCEPT ![c] = IdleThread]
    /\ UNCHANGED <<templates, call, sent, result>>

NextParallel ==
    \/ \E c \in Callers : thread_call(c)
    \/ \E c \in Callers : thread_static_off_test(c)
    \/ \E c \in Callers : thread_static_off(c)
    \/ \E c \in Callers : thread_lookup(c)
    \/ \E c \in Callers : thread_substitute(c)
    \/ \E c \in Callers : thread_return(c)

SpecParallel == Init /\ [][NextParallel]_vars

(***************************************************************************)
(* What the properties below read of a send_configuration call.            *)
(***************************************************************************)
IsConfiguration == call.op = "send_configuration"

\* the string handed to send_command
Command == sent[1].params[1]

CallPrefix == model_prefix(call.model)
CallSuffix == model_suffix(call.model)

Registered == CallPrefix \in DOMAIN DEVICE_COMMAND_TEMPLATES

RegisteredWithOff ==
    /\ CallPrefix \in DOMAIN DEVICE_COMMAND_TEMPLATES
    /\ "off" \in DOMAIN DEVICE_COMMAND_TEMPLATES[CallPrefix]

\* one send_cmd RPC with one parameter, and no error
OneCommandSent ==
    /\ Len(sent) = 1
    /\ sent[1].method = "send_cmd"
    /\ Len(sent[1].params) = 1
    /\ result.exc = "none"

\* the digit of one of the enumerations' values 0..9
Digit(n) == <<UpperHexDigits[n + 1]>>

\* n in upper-case hexadecimal, for -255 <= n <= 255
HexText(n) ==
    LET m == IF n < 0 THEN 0 - n ELSE n
        digits == IF m < 16 THEN <<UpperHexDigits[m + 1]>>
                  ELSE <<UpperHexDigits[(m \div 16) + 1],
                         UpperHexDigits[(m % 16) + 1]>>
    IN  IF n < 0 THEN <<"-">> \o digits ELSE digits

\* n in decimal, for -9999 <= n <= 9999
RECURSIVE DecimalNat(_)
DecimalNat(m) ==
    IF m < 10 THEN <<UpperHexDigits[m + 1]>>
    ELSE DecimalNat(m \div 10) \o <<UpperHexDigits[(m % 10) + 1]>>

DecimalText(n) ==
    IF n < 0 THEN <<"-">> \o DecimalNat(0 - n) ELSE DecimalNat(n)

\* power, mode, fan speed, swing and temperature as the five leading
\* markers of every base of the registry are to be replaced
ExpectedHead ==
    Digit(Power[call.power]) \o Digit(OperationMode[call.operation_mode])
    \o Digit(FanSpeed[call.fan_speed]) \o Digit(SwingMode[call.swing_mode])
    \o HexText(call.target_temperature)

ExpectedLed == IF call.led = "On" THEN <<"0">> ELSE <<"a">>

\* the single hexadecimal digit of (K + t - 17) mod 16
OffsetDigit(K) ==
    <<UpperHexDigits[((K + call.target_temperature - 17) % 16) + 1]>>

(***************************************************************************)
(* C1: when the prefix of the model is a registry key with an 'off' entry  *)
(* and power is Off, send_command gets exactly prefix + off: nothing is    *)
(* substituted, no suffix is appended, and the string does not depend on   *)
(* mode, fan speed, swing mode, temperature or LED.                        *)
(***************************************************************************)
C1_OffShortcut ==
    (IsConfiguration /\ call.power = "Off" /\ RegisteredWithOff) =>
        /\ OneCommandSent
        /\ Command = CallPrefix \o DEVICE_COMMAND_TEMPLATES[CallPrefix]["off"]
        /\ CallPrefix = GREE_2 =>
              Command = GREE_2 \o
                  <<"0","1","0","1","1","1","0","1","0","0","4","0","0","0",
                    "2","0","5","0","0","2","1","1","2","0","0","0","D","0",
                    "4","0","0","0","2","0","7","0","0","2","0","0","0","0",
                    "0","0","A","0">>

C1_Witness ==
    /\ IsConfiguration /\ call.power = "Off" /\ RegisteredWithOff
    /\ call.operation_mode = "Dehumidify" /\ call.fan_speed = "High"
    /\ call.swing_mode = "On" /\ call.led = "Off"
    /\ call.target_temperature = 21
    /\ Len(Command) = 56

(***************************************************************************)
(* C2: for a model whose prefix is no registry key, whatever the power,    *)
(* no error is raised and the command is prefix + power digit + mode digit *)
(* + fan speed digit + swing digit + upper-case hex of the temperature +   *)
(* LED character + suffix; On, Cool, Auto, Off, 24, On gives               *)
(* prefix + "113118" + "0" + suffix.                                       *)
(***************************************************************************)
C2_Fallback ==
    (IsConfiguration /\ ~Registered) =>
        /\ OneCommandSent
        /\ Command = CallPrefix \o ExpectedHead \o ExpectedLed \o CallSuffix
        /\ ( /\ call.power = "On" /\ call.operation_mode = "Cool"
             /\ call.fan_speed = "Auto" /\ call.swing_mode = "Off"
             /\ call.target_temperature = 24 /\ call.led = "On" ) =>
              Command = CallPrefix \o <<"1","1","3","1","1","8","0">>
                        \o CallSuffix

C2_Witness ==
    /\ IsConfiguration /\ ~Registered
    /\ call.model = ModelOf(UNREGISTERED, <<"0","2">>)
    /\ call.power = "On" /\ call.operation_mode = "Cool"
    /\ call.fan_speed = "Auto" /\ call.swing_mode = "Off"
    /\ call.target_temperature = 24 /\ call.led = "On"
    /\ Command = UNREGISTERED \o <<"1","1","3","1","1","8","0","2">>

(***************************************************************************)
(* C8: whatever the model and the configuration, the command without its   *)
(* leading prefix and trailing suffix holds none of the markers [po],      *)
(* [mo], [wi], [sw], [tt], [tt1], [tt4], [tt7], [li]: every occurrence     *)
(* has been replaced, also of a marker that is in a base twice.            *)
(***************************************************************************)
Markers == {M_po, M_mo, M_wi, M_sw, M_tt, M_tt1, M_tt4, M_tt7, M_li}

Stripped ==
    SubSeq(Command, Len(CallPrefix) + 1, Len(Command) - Len(CallSuffix))

\* C8: no marker is left between the prefix and the suffix
C8_NoMarkerLeft ==
    IsConfiguration =>
        /\ OneCommandSent
        /\ SubSeq(Command, 1, Len(CallPrefix)) = CallPrefix
        /\ \A m \in Markers : ~Contains(Stripped, m)

\* the base of prefix 0100010727 and where its first [tt1] is
BaseGree2 == DEVICE_COMMAND_TEMPLATES[GREE_2]["base"]
FirstTt1 == find_from(BaseGree2, 1, M_tt1)

\* a call on the base that holds [tt1] twice
C8_Witness ==
    /\ IsConfiguration /\ CallPrefix = GREE_2 /\ call.power = "On"
    /\ FirstTt1 # 0
    /\ find_from(BaseGree2, FirstTt1 + 1, M_tt1) # 0
    /\ ~Contains(Stripped, M_tt1)

(***************************************************************************)
(* C9: every [ttK] marker, K in {1, 4, 7}, is replaced by the single       *)
(* upper-case hexadecimal digit of (K + t - 17) mod 16, which is in 0..15  *)
(* also when K + t - 17 is negative; t = 17 gives 1, 4, 7 and t = 0 gives  *)
(* 0 for K = 1.  The base of prefix 0100010727 holds [tt1] twice and       *)
(* [tt4] and [tt7] once.                                                   *)
(***************************************************************************)
C9_TemperatureOffsets ==
    (IsConfiguration /\ CallPrefix = GREE_2 /\ call.power = "On") =>
        /\ \A K \in {1, 4, 7} :
              /\ temperature_offset(K, call.target_temperature) = OffsetDigit(K)
              /\ (K + call.target_temperature - 17) % 16 \in 0..15
        /\ Command = GREE_2 \o ExpectedHead
               \o <<"1","1","0","0","1","9","0">> \o OffsetDigit(1)
               \o <<"2","0","5","0","0","2","1","0","2","0","0","0">>
               \o OffsetDigit(7)
               \o <<"0","1","9","0">> \o OffsetDigit(1)
               \o <<"2","0","7","0","0","2","0","0","0","0","0","0">>
               \o OffsetDigit(4) \o CallSuffix
        /\ call.target_temperature = 17 =>
              /\ temperature_offset(1, 17) = <<"1">>
              /\ temperature_offset(4, 17) = <<"4">>
              /\ temperature_offset(7, 17) = <<"7">>
        /\ call.target_temperature = 0 => temperature_offset(1, 0) = <<"0">>

\* K + t - 17 is negative for every K, and the digits wrap: t = 3 gives
\* 1 + 3 - 17 = -13 -> 3, 4 + 3 - 17 = -10 -> 6, 7 + 3 - 17 = -7 -> 9
C9_Witness ==
    /\ IsConfiguration /\ CallPrefix = GREE_2 /\ call.power = "On"
    /\ call.target_temperature = 3
    /\ Command[Len(GREE_2) + 13] = "3"
    /\ Command[Len(GREE_2) + 26] = "9"
    /\ Command[Len(GREE_2) + 31] = "3"
    /\ Command[Len(GREE_2) + 44] = "6"

(***************************************************************************)
(* C10: with power Off and a prefix that is unregistered, or registered    *)
(* without an 'off' entry, the command is prefix + the base of the         *)
(* prefix's template (of 'fallback' when unregistered) with [po] replaced  *)
(* by 0 and the other markers replaced from the configuration, + suffix.   *)
(***************************************************************************)
\* what follows the five leading markers in the base of a template
\* without an 'off' entry, after substitution
ExpectedTail ==
    CASE CallPrefix = GREE_8 ->
            ExpectedLed \o
            <<"1","0","0","0","9","0","9","0","0","0","0","5","0","0">>
      [] CallPrefix \in {HAIER_1, AUX_1, CHIGO_1} -> <<"1">>
      [] OTHER -> ExpectedLed

\* C10: Off without a static off command goes through the substitution
C10_OffWithoutShortcut ==
    (IsConfiguration /\ call.power = "Off" /\ ~RegisteredWithOff) =>
        /\ OneCommandSent
        /\ Command = CallPrefix \o <<"0">>
               \o Digit(OperationMode[call.operation_mode])
               \o Digit(FanSpeed[call.fan_speed])
               \o Digit(SwingMode[call.swing_mode])
               \o HexText(call.target_temperature)
               \o ExpectedTail \o CallSuffix

\* a registered prefix without 'off': Off, Ventilate, Medium, swing On,
\* 16 degrees, LED Off
C10_Witness ==
    /\ IsConfiguration /\ call.power = "Off" /\ CallPrefix = GREE_8
    /\ call.operation_mode = "Ventilate" /\ call.fan_speed = "Medium"
    /\ call.swing_mode = "On" /\ call.target_temperature = 16
    /\ call.led = "Off"
    /\ Command = GREE_8 \o <<"0","4","1","0","1","0","a">>
           \o <<"1","0","0","0","9","0","9","0","0","0","0","5","0","0">>
           \o <<"2">>

(***************************************************************************)
(* What the properties below read of a status call.                        *)
(***************************************************************************)
IsAcStatus == call.op = "AirConditioningCompanion.status"
IsPowerStripStatus == call.op = "PowerStrip.status"
IsAirPurifierStatus == call.op = "AirPurifier.status"

\* element [1] of the response is a str
StateIsStr == result.data[2].t = "str"

\* element [1][a:b] of the response
StateField(a, b) == Slice(result.data[2].v, a, b)

\* every character of s is a digit of the base, and there is one
AllDigits(s, base) ==
    /\ Len(s) > 0
    /\ \A i \in 1..Len(s) :
          \E d \in 1..base : s[i] = UpperHexDigits[d] \/ s[i] = LowerHexDigits[d]

(***************************************************************************)
(* C3: when element [1] has the digit 1 at offset 2, power is 'on' and     *)
(* is_on is true; when the substring at offset 2 cannot be parsed as an    *)
(* integer (a character that is no digit, or an empty slice of a string    *)
(* that is too short), power and is_on yield "unavailable" and do not      *)
(* raise.                                                                  *)
(***************************************************************************)
\* the first half of C3: the digit 1 at offset 2 reads as on
C3_PowerOnWhenDigitOne ==
    (IsAcStatus /\ StateIsStr /\ StateField(2, 3) = <<"1">>) =>
        /\ AirConditioningCompanionStatus_power(result.data) = Ok(StrV("on"))
        /\ AirConditioningCompanionStatus_is_on(result.data) = Ok(BoolV(TRUE))

\* C3 in full: on for the digit 1, and None, not an exception, for a
\* substring at offset 2 that does not parse
C3_PowerUnavailableWhenUnparsable ==
    /\ C3_PowerOnWhenDigitOne
    /\ (IsAcStatus /\ StateIsStr /\ ~AllDigits(StateField(2, 3), 10)) =>
          /\ AirConditioningCompanionStatus_power(result.data) = Ok(None)
          /\ AirConditioningCompanionStatus_is_on(result.data) = Ok(None)

(***************************************************************************)
(* C4: whenever the extraction or conversion of the substring of           *)
(* target_temperature, swing_mode, fan_speed or mode fails (characters     *)
(* that are no digits, an empty slice, or an integer that is no value of   *)
(* the field's enumeration), that accessor returns None instead of         *)
(* raising, whatever the other fields hold.                                *)
(***************************************************************************)
\* the substring of a field converts to a value of the field's type
FieldConverts(field) ==
    CASE field = "target_temperature" -> AllDigits(StateField(6, 8), 16)
      [] field = "swing_mode" ->
            /\ AllDigits(StateField(5, 6), 10)
            /\ DigitsValue(StateField(5, 6), 10) \in {0, 1}
      [] field = "fan_speed" ->
            /\ AllDigits(StateField(4, 5), 10)
            /\ DigitsValue(StateField(4, 5), 10) \in 0..3
      [] field = "mode" ->
            /\ AllDigits(StateField(3, 4), 10)
            /\ DigitsValue(StateField(3, 4), 10) \in 0..4

FieldValue(field) ==
    CASE field = "target_temperature" ->
            AirConditioningCompanionStatus_target_temperature(result.data)
      [] field = "swing_mode" ->
            AirConditioningCompanionStatus_swing_mode(result.data)
      [] field = "fan_speed" ->
            AirConditioningCompanionStatus_fan_speed(result.data)
      [] field = "mode" ->
            AirConditioningCompanionStatus_mode(result.data)

\* C4: a field that does not convert reads as None
C4_FieldFailureIsLocal ==
    (IsAcStatus /\ StateIsStr) =>
        \A field \in {"target_temperature", "swing_mode", "fan_speed", "mode"} :
            ~FieldConverts(field) => FieldValue(field) = Ok(None)

(***************************************************************************)
(* C5: for the status object of PowerStrip.status and of                   *)
(* AirPurifier.status and a list of values shorter than the list of        *)
(* names, every accessor whose property received no value yields None:     *)
(* it neither raises nor returns a value such as False.                    *)
(***************************************************************************)
\* the property is at a position of the names that has no value
NoValueFor(properties, property) ==
    \A i \in 1..Len(properties) :
        properties[i] = property => i > Len(call.values)

\* C5: every accessor of a property without a value gives None
C5_MissingIsUnavailable ==
    /\ IsPowerStripStatus =>
          \A accessor \in DOMAIN PowerStripStatus_property :
              NoValueFor(PowerStrip_properties,
                         PowerStripStatus_property[accessor]) =>
                  PowerStripStatus_get(result.data, accessor) = Ok(None)
    /\ IsAirPurifierStatus =>
          \A accessor \in DOMAIN AirPurifierStatus_property :
              NoValueFor(AirPurifier_properties,
                         AirPurifierStatus_property[accessor]) =>
                  AirPurifierStatus_get(result.data, accessor) = Ok(None)

(***************************************************************************)
(* C6: PowerStrip.status pairs names and values position by position up    *)
(* to the shorter length: the i-th name reads as the i-th value when there *)
(* is one and as None, without an error, when there is none; the values    *)
(* ["on"] give power == "on" and temperature None.                         *)
(***************************************************************************)
C6_PositionalPairing ==
    IsPowerStripStatus =>
        /\ result.exc = "none"
        /\ sent = <<Rpc("get_prop", PowerStrip_properties)>>
        /\ \A i \in 1..Len(PowerStrip_properties) :
              defaultdict_getitem(result.data, PowerStrip_properties[i])
                  = IF i <= Len(call.values) THEN Ok(call.values[i])
                    ELSE Ok(None)
        /\ PowerStripStatus_get(result.data, "power")
              = IF Len(call.values) >= 1 THEN Ok(call.values[1]) ELSE Ok(None)
        /\ PowerStripStatus_get(result.data, "temperature")
              = IF Len(call.values) >= 2 THEN Ok(call.values[2]) ELSE Ok(None)

C6_Witness ==
    /\ IsPowerStripStatus
    /\ call.values = <<StrV("on")>>
    /\ PowerStripStatus_get(result.data, "power") = Ok(StrV("on"))
    /\ PowerStripStatus_get(result.data, "temperature") = Ok(None)

C11_LedAgreesWithEncoding ==
    (IsAcStatus /\ StateIsStr) =>
        /\ StateField(8, 9) = Led.On =>
              AirConditioningCompanionStatus_led(result.data) = Ok(StrV("on"))
        /\ StateField(8, 9) = Led.Off =>
              AirConditioningCompanionStatus_led(result.data) = Ok(StrV("off"))
        /\ AirConditioningCompanionStatus_led(result.data) = Ok(StrV("on")) =>
              StateField(8, 9) = Led.On

(***************************************************************************)
(* C12: after any sequence or interleaving of send_configuration calls     *)
(* (off shortcut, registered template and fallback mixed, from parallel    *)
(* callers) DEVICE_COMMAND_TEMPLATES equals its initial table, and every   *)
(* call hands send_command the string that the same model and              *)
(* configuration give when the call runs alone.                            *)
(***************************************************************************)
\* the command of a call that runs alone on the initial registry
AloneCommand(a) ==
    configuration_command(DEVICE_COMMAND_TEMPLATES, a.model, a.power,
                          a.operation_mode, a.target_temperature,
                          a.fan_speed, a.swing_mode, a.led)

\* C12: the registry is its initial table and each finished call has sent
\* the command of a call that runs alone
C12_EncodingIsPure ==
    /\ templates = DEVICE_COMMAND_TEMPLATES
    /\ \A c \in Callers :
          threads[c].pc = "done" =>
              threads[c].sent = <<send_command(AloneCommand(threads[c].args))>>
    /\ \A c, d \in Callers :
          (/\ threads[c].pc = "done" /\ threads[d].pc = "done"
           /\ threads[c].args = threads[d].args) =>
              threads[c].sent = threads[d].sent

\* a call through the fallback template has finished while another caller
\* is between the test for the static off command and its use
C12_Witness ==
    \E c, d \in Callers :
        /\ threads[c].pc = "done"
        /\ model_prefix(threads[c].args.model) = UNREGISTERED
        /\ threads[c].sent =
              <<[method |-> "send_cmd",
                 params |-> <<UNREGISTERED
                              \o <<"1","1","3","1","1","8","0","2">>>>]>>
        /\ threads[d].pc = "static_off"
        /\ templates = DEVICE_COMMAND_TEMPLATES

====
